---- MODULE Spec2Model ----
(***************************************************************************)
(* Model of the schedule bot's change-detection monitor (monitor_schedule) *)
(* in its two source variants:                                             *)
(*   "main"   : src/schedule_bot.py        (PostgreSQL store)              *)
(*   "backup" : src/schedule_bot_backup.py (SQLite store)                  *)
(* The monitor is one asyncio task; every step between two awaits runs     *)
(* without interleaving.  The steps are kept apart by pc so that their     *)
(* order can be stated.                                                    *)
(***************************************************************************)
EXTENDS Integers, Sequences, FiniteSets, TLC

VARIABLES
    variant,              \* which source file runs: "main" or "backup"
    main_group,           \* users.group_name, "None" when NULL
    extra_groups,         \* user_extra_groups rows of each user, in row order
    subscribed,           \* the users the subscriber query selects
    previous_hashes,      \* monitor_schedule: previous_hashes
    schedule,             \* monitor_schedule: schedule ([ok |-> FALSE] is None)
    current_hashes,       \* monitor_schedule: current_hashes
    changed_groups,       \* monitor_schedule: changed_groups
    subscribers,          \* monitor_schedule: subscribers
    idx,                  \* position of the `for subscriber in subscribers` loop
    user_id,              \* monitor_schedule: user_id (Unbound before any assignment)
    user_changed_groups,  \* monitor_schedule: user_changed_groups
    gidx,                 \* position of the `for user_group in user_changed_groups` loop
    pc,                   \* the monitor's position
    held_at_start,        \* history: previous_hashes when the iteration began
    attempts,             \* history: send_message calls of this iteration
    subs_fetched,         \* history: get_all_subscribers was called in this iteration
    lookup_failed,        \* history: users whose get_user_all_groups raised in this iteration
    replaced,             \* history: line `previous_hashes = current_hashes` ran in this iteration
    succ_count,           \* history: completed iterations whose parse succeeded (capped);
                          \* the history below is kept while succ_count < MaxSucc
    last_snap,            \* history: groups of the latest earlier successful parse
    before_last_same,     \* history: the two latest earlier successful parses were identical
    last_seen,            \* history: latest content each group ever had in an earlier successful parse
    prev_unavail,         \* history: the previous iteration got None from get_schedule
    held_snap,            \* history: the groups mapping previous_hashes was computed from
    fetch_store,          \* history: the store as get_all_subscribers read it in this iteration
    cmds,                 \* number of store-changing commands handled so far (capped)
    response,             \* get_schedule: what requests.get does ([kind, status, doc])
    rows,                 \* get_schedule: rows
    i,                    \* get_schedule: i, the cursor of the row scan
    schedule_by_group,    \* get_schedule: schedule_by_group
    result,               \* get_schedule: the returned value, once ppc = "done"
    ppc,                  \* get_schedule's position: "idle", "request", "scan", "done"
    steps,                \* history: one record per pass of `while i < len(rows)`
    q_schedule,           \* a command handler's schedule = get_schedule()
    query,                \* the text after /teacher, or the name of a teacher button
    found_teachers,       \* teacher: found_teachers
    teacher_data,         \* teacher, handle_callback_query: teacher_data
    outcome,              \* how the handler ended
    qpc,                  \* the handler's position: "idle", "start", "found", "done"
    retry_groups          \* history: changed_groups of the latest earlier successful parse
                          \* if get_all_subscribers raised in that iteration, else empty

vars == << variant, main_group, extra_groups, subscribed, previous_hashes, schedule,
           current_hashes, changed_groups, subscribers, idx, user_id,
           user_changed_groups, gidx, pc, held_at_start, attempts, subs_fetched,
           lookup_failed, replaced, succ_count, last_snap, before_last_same, last_seen, prev_unavail,
           held_snap, fetch_store, cmds, response, rows, i, schedule_by_group, result,
           ppc, steps, q_schedule, query, found_teachers, teacher_data, outcome, qpc,
           retry_groups >>

\* what one call of get_schedule holds
parse_vars == << response, rows, i, schedule_by_group, result, ppc, steps >>

\* what one handler that shows schedule data holds
query_vars == << q_schedule, query, found_teachers, teacher_data, outcome, qpc >>

\* what the command handlers and get_schedule use and monitor_schedule never writes
outside_vars == << cmds, parse_vars, query_vars >>

store_vars == << variant, main_group, extra_groups, subscribed, outside_vars >>

hist_vars == << succ_count, last_snap, before_last_same, last_seen, prev_unavail,
               retry_groups >>

\* the frame of every step but Replace
kept_vars == << store_vars, hist_vars, held_snap, fetch_store >>

-----------------------------------------------------------------------------
(* Bounds and input sets *)

\* cap of the history counter of successful iterations
MaxSucc == 3

\* number of store-changing commands handled in a run
MaxCmds == 2

\* MAX_EXTRA_GROUPS
MAX_EXTRA_GROUPS == 4

Users == {1, 2}

\* value of the local user_id before its first assignment
Unbound == 0

Groups == {"G1", "G2"}

\* iteration order of schedule['groups'] (document order of the group keys)
GroupOrder == << "G1", "G2" >>

\* a GroupSchedule is a sequence of ClassEntry; entries are named 1 and 2
Contents == { <<>>, <<1, 2>>, <<2, 1>> }

\* the groups mappings get_schedule can return
Snapshots == UNION { [S -> Contents] : S \in SUBSET Groups }

EmptyMap == << >>

None == [ok |-> FALSE, groups |-> EmptyMap]

Variants == {"main", "backup"}

\* subscriber stores the monitor is run against
StoreChoices ==
    { [main |-> (1 :> "G1" @@ 2 :> "G2"),
       extra |-> (1 :> << >> @@ 2 :> << >>),
       subs |-> {1, 2}],
      [main |-> (1 :> "G1" @@ 2 :> "G1"),
       extra |-> (1 :> << "G2" >> @@ 2 :> << >>),
       subs |-> {1}],
      [main |-> (1 :> "None" @@ 2 :> "G2"),
       extra |-> (1 :> << "G2", "G1" >> @@ 2 :> << >>),
       subs |-> {1, 2}],
      [main |-> (1 :> "G2" @@ 2 :> "None"),
       extra |-> (1 :> << >> @@ 2 :> << "G1" >>),
       subs |-> {}] }

-----------------------------------------------------------------------------
(* Pure helpers *)

RECURSIVE Digest(_, _)
Digest(s, h) ==
    IF s = << >> THEN h ELSE Digest(Tail(s), h * 3 + Head(s))

\* hashlib.sha256(str(group_schedule).encode()).hexdigest(): a digest of the
\* exact ordered entry sequence, distinct for distinct sequences
GroupHash(group_schedule) == Digest(group_schedule, 1)

RECURSIVE SeqFilterIn(_, _)
SeqFilterIn(s, S) ==
    IF s = << >> THEN << >>
    ELSE IF Head(s) \in S THEN << Head(s) >> \o SeqFilterIn(Tail(s), S)
         ELSE SeqFilterIn(Tail(s), S)

Range(s) == { s[k] : k \in DOMAIN s }

\* the truth value of a dict: non-empty
Truthy(map) == DOMAIN map # {}

\* ColdCheckDropped: the diff without the `elif previous_hashes` guard
ColdCheckDropped(group_name, group_hash, prev) ==
    IF group_name \in DOMAIN prev THEN prev[group_name] # group_hash ELSE TRUE

\* NewGroupIgnored: the diff without the `elif` branch
NewGroupIgnored(group_name, group_hash, prev) ==
    IF group_name \in DOMAIN prev THEN prev[group_name] # group_hash ELSE FALSE

\* the two branches that append group_name to changed_groups
IsChanged(group_name, group_hash, prev) ==
    IF group_name \in DOMAIN prev
    THEN prev[group_name] # group_hash
    ELSE Truthy(prev)

RECURSIVE DiffLoop(_, _, _)
\* the `for group_name, group_schedule in schedule['groups'].items()` loop
DiffLoop(order, groups, prev) ==
    IF order = << >> THEN << >>
    ELSE LET g == Head(order)
             rest == DiffLoop(Tail(order), groups, prev)
         IN IF g \in DOMAIN groups /\ IsChanged(g, GroupHash(groups[g]), prev)
            THEN << g >> \o rest
            ELSE rest

CurrentHashes(groups) == [g \in DOMAIN groups |-> GroupHash(groups[g])]

RECURSIVE AscendingSeq(_)
AscendingSeq(S) ==
    IF S = {} THEN << >>
    ELSE LET m == CHOOSE x \in S : \A y \in S : x <= y
         IN << m >> \o AscendingSeq(S \ {m})

\* get_all_subscribers: one row per selected user
GetAllSubscribers == AscendingSeq(subscribed)

\* get_user_all_groups: main group first if set, then the extra groups
GetUserAllGroups(u) ==
    (IF main_group[u] # "None" THEN << main_group[u] >> ELSE << >>) \o extra_groups[u]

\* the rows of users, user_extra_groups and the subscriber selection
StoreNow == [main |-> main_group, extra |-> extra_groups, subs |-> subscribed]

\* no store read yet in this iteration
NoStore == [main |-> EmptyMap, extra |-> EmptyMap, subs |-> {}]

\* no call of get_schedule is followed step by step
ParseIdle ==
    /\ response = [kind |-> "none"]
    /\ rows = << >>
    /\ i = 0
    /\ schedule_by_group = EmptyMap
    /\ result = None
    /\ ppc = "idle"
    /\ steps = << >>

\* how a handler ended: which one, whether an exception left it, whether it
\* got as far as formatting a teacher's schedule
Outcome(h, r, sh) == [handler |-> h, raised |-> r, shown |-> sh]

NoOutcome == Outcome("none", FALSE, FALSE)

\* no handler that shows schedule data is followed
QueryIdle ==
    /\ q_schedule = None
    /\ query = << >>
    /\ found_teachers = << >>
    /\ teacher_data = EmptyMap
    /\ outcome = NoOutcome
    /\ qpc = "idle"

\* `subscriber['user_id']`: the backup's rows are sqlite3.Row objects; the main
\* variant's get_all_subscribers returns bare integers, which cannot be subscripted
SubscriptRaises == variant = "main"

-----------------------------------------------------------------------------
Init ==
    /\ variant \in Variants
    /\ \E st \in StoreChoices :
          /\ main_group = st.main
          /\ extra_groups = st.extra
          /\ subscribed = st.subs
    /\ previous_hashes = EmptyMap
    /\ schedule = None
    /\ current_hashes = EmptyMap
    /\ changed_groups = << >>
    /\ subscribers = << >>
    /\ idx = 0
    /\ user_id = Unbound
    /\ user_changed_groups = << >>
    /\ gidx = 0
    /\ pc = "fetch"
    /\ held_at_start = EmptyMap
    /\ attempts = << >>
    /\ subs_fetched = FALSE
    /\ lookup_failed = {}
    /\ replaced = FALSE
    /\ succ_count = 0
    /\ last_snap = EmptyMap
    /\ before_last_same = FALSE
    /\ last_seen = EmptyMap
    /\ prev_unavail = FALSE
    /\ held_snap = EmptyMap
    /\ fetch_store = NoStore
    /\ cmds = 0
    /\ ParseIdle
    /\ QueryIdle
    /\ retry_groups = << >>

\* schedule = get_schedule(): None, or a snapshot
Fetch ==
    /\ pc = "fetch"
    /\ \/ schedule' = None
       \/ \E s \in Snapshots : schedule' = [ok |-> TRUE, groups |-> s]
    /\ held_at_start' = previous_hashes
    /\ pc' = "diff"
    /\ UNCHANGED << kept_vars, previous_hashes, current_hashes, changed_groups,
                    subscribers, idx, user_id, user_changed_groups, gidx, attempts,
                    subs_fetched, lookup_failed, replaced >>

\* `if schedule and 'groups' in schedule`: the hash loop and `if changed_groups`
Diff ==
    /\ pc = "diff"
    /\ schedule.ok
    /\ current_hashes' = CurrentHashes(schedule.groups)
    /\ changed_groups' = DiffLoop(GroupOrder, schedule.groups, previous_hashes)
    /\ pc' = IF changed_groups' # << >> THEN "subs" ELSE "replace"
    /\ UNCHANGED << kept_vars, previous_hashes, schedule, subscribers, idx,
                    user_id, user_changed_groups, gidx, held_at_start, attempts,
                    subs_fetched, lookup_failed, replaced >>

\* UnavailableForgets: the else branch also drops the held hashes
UnavailableForgets ==
    /\ pc = "diff"
    /\ ~schedule.ok
    /\ pc' = "sleep"
    /\ previous_hashes' = EmptyMap
    /\ UNCHANGED << kept_vars, current_hashes, changed_groups, schedule,
                    subscribers, idx, user_id, user_changed_groups, gidx, held_at_start,
                    attempts, subs_fetched, lookup_failed, replaced >>

\* UnavailableReturns: the else branch leaves the `while True` loop
UnavailableReturns ==
    /\ pc = "diff"
    /\ ~schedule.ok
    /\ pc' = "returned"
    /\ UNCHANGED << kept_vars, previous_hashes, current_hashes, changed_groups, schedule,
                    subscribers, idx, user_id, user_changed_groups, gidx, held_at_start,
                    attempts, subs_fetched, lookup_failed, replaced >>

\* the else branch: get_schedule returned None, nothing but a log line
Unavailable ==
    /\ pc = "diff"
    /\ ~schedule.ok
    /\ pc' = "sleep"
    /\ UNCHANGED << kept_vars, previous_hashes, current_hashes, changed_groups, schedule,
                    subscribers, idx, user_id, user_changed_groups, gidx, held_at_start,
                    attempts, subs_fetched, lookup_failed, replaced >>

\* FetchSubscribersFailureReplaces: the outer except also stores the new hashes
FetchSubscribersFailureReplaces ==
    /\ pc = "subs"
    /\ subs_fetched' = TRUE
    /\ \/ /\ subscribers' = GetAllSubscribers
          /\ fetch_store' = StoreNow
          /\ idx' = 1
          /\ pc' = "next_sub"
          /\ UNCHANGED previous_hashes
       \/ /\ pc' = "sleep"
          /\ previous_hashes' = current_hashes
          /\ UNCHANGED << subscribers, idx, fetch_store >>
    /\ UNCHANGED << store_vars, hist_vars, held_snap, schedule, current_hashes,
                    changed_groups, user_id, user_changed_groups, gidx, held_at_start,
                    attempts, lookup_failed, replaced >>

\* subscribers = get_all_subscribers(); a store failure reaches the outer except
FetchSubscribers ==
    /\ pc = "subs"
    /\ subs_fetched' = TRUE
    /\ \/ /\ subscribers' = GetAllSubscribers
          /\ fetch_store' = StoreNow
          /\ idx' = 1
          /\ pc' = "next_sub"
       \/ /\ pc' = "sleep"
          /\ UNCHANGED << subscribers, idx, fetch_store >>
    /\ UNCHANGED << store_vars, hist_vars, held_snap, previous_hashes, schedule, current_hashes,
                    changed_groups, user_id, user_changed_groups, gidx, held_at_start,
                    attempts, lookup_failed, replaced >>

\* the inner `except Exception as e: print(f"... {user_id}: {e}")`: the print
\* reads user_id and raises in turn, out of the for loop, when it is unbound
HandlerContinues(uid) == uid # Unbound

\* one pass of `for subscriber in subscribers` up to the first send_message
NextSubscriber ==
    /\ pc = "next_sub"
    /\ IF idx > Len(subscribers)
       THEN /\ pc' = "replace"
            /\ UNCHANGED << idx, user_id, user_changed_groups, gidx, lookup_failed >>
       ELSE IF SubscriptRaises
       THEN /\ IF HandlerContinues(user_id)
               THEN pc' = "next_sub" /\ idx' = idx + 1
               ELSE pc' = "sleep" /\ idx' = idx
            /\ UNCHANGED << user_id, user_changed_groups, gidx, lookup_failed >>
       ELSE /\ user_id' = subscribers[idx]
            /\ \/ \* get_user_all_groups raises: caught by the inner except
                  /\ pc' = "next_sub"
                  /\ idx' = idx + 1
                  /\ lookup_failed' = lookup_failed \cup {subscribers[idx]}
                  /\ UNCHANGED << user_changed_groups, gidx >>
               \/ LET ucg == SeqFilterIn(GetUserAllGroups(subscribers[idx]),
                                         Range(changed_groups))
                  IN /\ UNCHANGED lookup_failed
                     /\ IF ucg = << >>
                        THEN /\ pc' = "next_sub"
                             /\ idx' = idx + 1
                             /\ UNCHANGED << user_changed_groups, gidx >>
                        ELSE /\ user_changed_groups' = ucg
                             /\ gidx' = 1
                             /\ pc' = "send"
                             /\ idx' = idx
    /\ UNCHANGED << kept_vars, previous_hashes, schedule, current_hashes,
                    changed_groups, subscribers, held_at_start, attempts, subs_fetched,
                    replaced >>

\* SendStartDetached: send_message is started as a task of its own and not awaited
SendStartDetached ==
    /\ pc = "send"
    /\ LET user_group == user_changed_groups[gidx]
           last == gidx = Len(user_changed_groups)
       IN /\ attempts' = Append(attempts,
                                [to |-> user_id, group |-> user_group,
                                 body |-> schedule.groups[user_group],
                                 result |-> "pending"])
          /\ pc' = IF last THEN "next_sub" ELSE "send"
          /\ idx' = IF last THEN idx + 1 ELSE idx
          /\ gidx' = IF last THEN gidx ELSE gidx + 1
    /\ UNCHANGED << kept_vars, previous_hashes, schedule, current_hashes,
                    changed_groups, subscribers, user_id, user_changed_groups,
                    held_at_start, subs_fetched, lookup_failed, replaced >>

\* SendStartRereads: the group of each send is looked up in the store again
SendStartRereads ==
    /\ pc = "send"
    /\ LET now == SeqFilterIn(GetUserAllGroups(user_id), Range(changed_groups))
           user_group == IF gidx <= Len(now) THEN now[gidx] ELSE user_changed_groups[gidx]
       IN /\ attempts' = Append(attempts,
                                [to |-> user_id, group |-> user_group,
                                 body |-> schedule.groups[user_group],
                                 result |-> "pending"])
    /\ pc' = "await_send"
    /\ UNCHANGED << kept_vars, previous_hashes, schedule, current_hashes,
                    changed_groups, subscribers, idx, user_id, user_changed_groups, gidx,
                    held_at_start, subs_fetched, lookup_failed, replaced >>

\* `await app.bot.send_message(chat_id=user_id, text=...)` is called
SendStart ==
    /\ pc = "send"
    /\ LET user_group == user_changed_groups[gidx]
       IN /\ user_group \in DOMAIN schedule.groups
          /\ attempts' = Append(attempts,
                                [to |-> user_id, group |-> user_group,
                                 body |-> schedule.groups[user_group],
                                 result |-> "pending"])
    /\ pc' = "await_send"
    /\ UNCHANGED << kept_vars, previous_hashes, schedule, current_hashes,
                    changed_groups, subscribers, idx, user_id, user_changed_groups, gidx,
                    held_at_start, subs_fetched, lookup_failed, replaced >>

\* FailedSendAborts: a send_message failure reaches the outer except
FailedSendAborts(last) == [pc |-> "sleep", idx |-> idx, gidx |-> gidx]

\* send_message raised: the inner except ends this subscriber's pass
AfterFailedSend(last) == [pc |-> "next_sub", idx |-> idx + 1, gidx |-> gidx]

\* send_message returned: next group of this subscriber, or next subscriber
AfterSend(last) ==
    IF last THEN [pc |-> "next_sub", idx |-> idx + 1, gidx |-> gidx]
    ELSE [pc |-> "send", idx |-> idx, gidx |-> gidx + 1]

\* the awaited send_message returns or raises
SendReturn ==
    /\ pc = "await_send"
    /\ \E ok \in BOOLEAN :
         LET last == gidx = Len(user_changed_groups)
             nxt == IF ok THEN AfterSend(last) ELSE AfterFailedSend(last)
         IN /\ attempts' = [attempts EXCEPT ![Len(attempts)].result =
                               IF ok THEN "ok" ELSE "failed"]
            /\ pc' = nxt.pc
            /\ idx' = nxt.idx
            /\ gidx' = nxt.gidx
    /\ UNCHANGED << kept_vars, previous_hashes, schedule, current_hashes,
                    changed_groups, subscribers, user_id, user_changed_groups,
                    held_at_start, subs_fetched, lookup_failed, replaced >>

\* previous_hashes = current_hashes
Replace ==
    /\ pc = "replace"
    /\ previous_hashes' = current_hashes
    /\ replaced' = TRUE
    /\ held_snap' = schedule.groups
    /\ pc' = "sleep"
    /\ UNCHANGED << store_vars, hist_vars, fetch_store, schedule, current_hashes,
                    changed_groups, subscribers, idx, user_id, user_changed_groups, gidx,
                    held_at_start, attempts, subs_fetched, lookup_failed >>

\* await asyncio.sleep(CHECK_INTERVAL) returns and the next pass of `while True` begins
LoopSleep ==
    /\ pc = "sleep"
    /\ pc' = "fetch"
    /\ schedule' = None
    /\ current_hashes' = EmptyMap
    /\ changed_groups' = << >>
    /\ subscribers' = << >>
    /\ idx' = 0
    /\ user_changed_groups' = << >>
    /\ gidx' = 0
    /\ held_at_start' = previous_hashes
    /\ attempts' = << >>
    /\ subs_fetched' = FALSE
    /\ lookup_failed' = {}
    /\ replaced' = FALSE
    /\ fetch_store' = NoStore
    /\ IF schedule.ok /\ succ_count + 1 < MaxSucc
       THEN /\ succ_count' = succ_count + 1
            /\ last_snap' = schedule.groups
            /\ before_last_same' = (succ_count >= 1 /\ last_snap = schedule.groups)
            /\ last_seen' = [g \in DOMAIN last_seen \cup DOMAIN schedule.groups |->
                                IF g \in DOMAIN schedule.groups
                                THEN schedule.groups[g] ELSE last_seen[g]]
            /\ prev_unavail' = FALSE
            /\ retry_groups' = IF subs_fetched /\ idx = 0 THEN changed_groups ELSE << >>
       ELSE IF schedule.ok \/ succ_count = MaxSucc
       THEN /\ succ_count' = MaxSucc
            /\ last_snap' = EmptyMap
            /\ before_last_same' = FALSE
            /\ last_seen' = EmptyMap
            /\ prev_unavail' = FALSE
            /\ retry_groups' = << >>
       ELSE /\ prev_unavail' = TRUE
            /\ UNCHANGED << succ_count, last_snap, before_last_same, last_seen,
                            retry_groups >>
    /\ UNCHANGED << store_vars, previous_hashes, user_id, held_snap >>

Next ==
    \/ Fetch
    \/ Diff
    \/ Unavailable
    \/ FetchSubscribers
    \/ NextSubscriber
    \/ SendStart
    \/ SendReturn
    \/ Replace
    \/ LoopSleep

Spec == Init /\ [][Next]_vars

-----------------------------------------------------------------------------
(* Command handlers.  They are coroutines of the same event loop as           *)
(* monitor_schedule, so one runs only while the monitor is suspended in an    *)
(* await: in send_message or in asyncio.sleep (get_schedule and the store     *)
(* calls block the loop).  Each handler changes the store in one synchronous  *)
(* call before its own first await.                                           *)

MonitorSuspended == pc \in {"await_send", "sleep"}

\* the frame of a handler: everything monitor_schedule holds
monitor_vars == << variant, previous_hashes, schedule, current_hashes, changed_groups,
                   subscribers, idx, user_id, user_changed_groups, gidx, pc,
                   held_at_start, attempts, subs_fetched, lookup_failed, replaced,
                   hist_vars, held_snap, fetch_store >>

Handled ==
    /\ MonitorSuspended
    /\ cmds < MaxCmds
    /\ cmds' = cmds + 1
    /\ UNCHANGED << monitor_vars, parse_vars, query_vars >>

RECURSIVE SeqRemove(_, _)
SeqRemove(s, x) ==
    IF s = << >> THEN << >>
    ELSE IF Head(s) = x THEN SeqRemove(Tail(s), x)
         ELSE << Head(s) >> \o SeqRemove(Tail(s), x)

\* /setgroup <group> with a valid name: set_user_group
SetGroup ==
    /\ Handled
    /\ \E u \in Users, group \in Groups :
          main_group' = [main_group EXCEPT ![u] = group]
    /\ UNCHANGED << extra_groups, subscribed >>

\* /addgroup <group> with a valid name: the limit check, the main-group check,
\* then add_extra_group, which refuses a row that is already there
AddGroup ==
    /\ Handled
    /\ \E u \in Users, group \in Groups :
          IF \/ Len(extra_groups[u]) >= MAX_EXTRA_GROUPS
             \/ main_group[u] = group
             \/ group \in Range(extra_groups[u])
          THEN UNCHANGED extra_groups
          ELSE extra_groups' = [extra_groups EXCEPT ![u] = Append(@, group)]
    /\ UNCHANGED << main_group, subscribed >>

\* /removegroup <group>: remove_extra_group
RemoveGroup ==
    /\ Handled
    /\ \E u \in Users, group \in Groups :
          extra_groups' = [extra_groups EXCEPT ![u] = SeqRemove(@, group)]
    /\ UNCHANGED << main_group, subscribed >>

\* /subscribe: subscribe_user
Subscribe ==
    /\ Handled
    /\ \E u \in Users : subscribed' = subscribed \cup {u}
    /\ UNCHANGED << main_group, extra_groups >>

\* /unsubscribe: unsubscribe_user
Unsubscribe ==
    /\ Handled
    /\ \E u \in Users : subscribed' = subscribed \ {u}
    /\ UNCHANGED << main_group, extra_groups >>

\* the SQLite variant with every user subscribed
\* the monitor's locals and the history at the start of an iteration, the
\* capped history of the first iterations being over
SteadyLocals ==
    /\ previous_hashes = EmptyMap
    /\ schedule = None
    /\ current_hashes = EmptyMap
    /\ changed_groups = << >>
    /\ subscribers = << >>
    /\ idx = 0
    /\ user_id = Unbound
    /\ user_changed_groups = << >>
    /\ gidx = 0
    /\ pc = "fetch"
    /\ held_at_start = EmptyMap
    /\ attempts = << >>
    /\ subs_fetched = FALSE
    /\ lookup_failed = {}
    /\ replaced = FALSE
    /\ succ_count = MaxSucc
    /\ last_snap = EmptyMap
    /\ before_last_same = FALSE
    /\ last_seen = EmptyMap
    /\ prev_unavail = FALSE
    /\ held_snap = EmptyMap
    /\ fetch_store = NoStore
    /\ cmds = 0
    /\ retry_groups = << >>

InitCmd ==
    /\ variant = "backup"
    /\ \E st \in { c \in StoreChoices : c.subs = Users } :
          /\ main_group = st.main
          /\ extra_groups = st.extra
          /\ subscribed = st.subs
    /\ SteadyLocals
    /\ ParseIdle
    /\ QueryIdle

NextCmd ==
    \/ Next
    \/ SetGroup
    \/ AddGroup
    \/ RemoveGroup
    \/ Subscribe
    \/ Unsubscribe

SpecCmd == InitCmd /\ [][NextCmd]_vars

-----------------------------------------------------------------------------
(* The monitor under fairness.  monitor_schedule is one task of the event     *)
(* loop: every call it makes returns or raises and asyncio.sleep returns, so  *)
(* a step that can be taken is taken.                                         *)

InitLive ==
    /\ variant \in Variants
    /\ \E st \in StoreChoices :
          /\ main_group = st.main
          /\ extra_groups = st.extra
          /\ subscribed = st.subs
    /\ SteadyLocals
    /\ ParseIdle
    /\ QueryIdle

SpecLive == InitLive /\ [][Next]_vars /\ WF_vars(Next)

-----------------------------------------------------------------------------
(* Properties of monitor_schedule *)

\* the diff of the running iteration has been computed from a successful parse
AfterDiff == schedule.ok /\ pc \notin {"fetch", "diff"}

ChangedSet == Range(changed_groups)

\* the new snapshot and the previous successful one have the same groups and
\* differ in the entries of g alone
DiffersOnlyIn(g) ==
    /\ DOMAIN schedule.groups = DOMAIN last_snap
    /\ g \in DOMAIN last_snap
    /\ schedule.groups[g] # last_snap[g]
    /\ \A h \in DOMAIN last_snap \ {g} : schedule.groups[h] = last_snap[h]

\* the (recipient, group) pairs an iteration has to notify: every subscriber of
\* the fetched list with every tracked group that changed
DispatchSet ==
    { << u, g >> \in Range(subscribers) \X Groups :
         g \in Range(GetUserAllGroups(u)) /\ g \in ChangedSet }

AttemptsTo(u, g) == { k \in DOMAIN attempts : attempts[k].to = u /\ attempts[k].group = g }

FailedAttempts == { k \in DOMAIN attempts : attempts[k].result = "failed" }

\* C1: cold-start suppression. The first iteration whose parse succeeds reports
\* no changed group whatever the snapshot holds; a following iteration with
\* identical content reports none either; a following iteration in which exactly
\* one group's entries differ reports exactly that group.
C1_ColdStartSuppression ==
    (AfterDiff /\ succ_count < MaxSucc) =>
        /\ (succ_count = 0 => changed_groups = << >>)
        /\ (succ_count = 1 /\ schedule.groups = last_snap => changed_groups = << >>)
        /\ (succ_count = 2 /\ before_last_same =>
              \A g \in Groups : DiffersOnlyIn(g) => changed_groups = << g >>)

\* C1 witness: the third successful iteration, after two identical snapshots,
\* differs in one group and reports it
C1_Witness ==
    /\ AfterDiff
    /\ succ_count = 2
    /\ before_last_same
    /\ Cardinality(DOMAIN last_snap) = 2
    /\ \E g \in Groups : DiffersOnlyIn(g) /\ changed_groups = << g >>

\* C2: after a successful parse a group of the new snapshot is changed iff
\* (a) it is a key of the map held at the start of the iteration with another
\* hash, or (b) it is no key of it and that map is non-empty; no group outside
\* the new snapshot is changed.
C2_ChangedIff ==
    AfterDiff =>
        /\ ChangedSet \subseteq DOMAIN schedule.groups
        /\ \A g \in DOMAIN schedule.groups :
              g \in ChangedSet <=>
                 \/ /\ g \in DOMAIN held_at_start
                    /\ held_at_start[g] # GroupHash(schedule.groups[g])
                 \/ /\ g \notin DOMAIN held_at_start
                    /\ held_at_start # EmptyMap

\* C2 witness: one iteration reports a group under rule (a), a second under
\* rule (b), and leaves an unchanged one out
C2_Witness ==
    /\ AfterDiff
    /\ \E g \in ChangedSet : g \in DOMAIN held_at_start
    /\ \E g \in ChangedSet : g \notin DOMAIN held_at_start

\* C3: in src/schedule_bot.py, once the subscriber list of an iteration with
\* changed groups is fetched, the iteration ends with exactly one send_message
\* per subscriber and tracked changed group, carrying that group's schedule, and
\* none for anybody else.
C3_SubscriberFiltering ==
    (variant = "main" /\ pc = "sleep" /\ schedule.ok /\ changed_groups # << >> /\ idx > 0) =>
        \A u \in Users, g \in Groups :
            /\ Cardinality(AttemptsTo(u, g)) = IF << u, g >> \in DispatchSet THEN 1 ELSE 0
            /\ \A k \in AttemptsTo(u, g) : attempts[k].body = schedule.groups[g]

\* C4: when the delivery for one (recipient, group) pair fails, every other
\* pair of the dispatch set whose tracked groups could be read is still
\* attempted in the same iteration.
C4_FailureIsolation ==
    (pc = "sleep" /\ schedule.ok /\ idx > 0) =>
        \A k \in FailedAttempts :
            \A p \in DispatchSet :
                (p # << attempts[k].to, attempts[k].group >> /\ p[1] \notin lookup_failed)
                    => AttemptsTo(p[1], p[2]) # {}

\* C5: a failed delivery never aborts the iteration and never prevents the
\* replacement: an iteration in which some send_message raised ends with the
\* subscriber loop run to its end and the held map equal to the hashes of the
\* new snapshot.
C5_DeliveryFailureKeepsReplacement ==
    (pc = "sleep" /\ FailedAttempts # {}) =>
        /\ idx > Len(subscribers)
        /\ replaced
        /\ previous_hashes = CurrentHashes(schedule.groups)

\* C5 witness: an iteration with a failed delivery has ended
C5_Witness ==
    /\ pc = "sleep"
    /\ FailedAttempts # {}
    /\ FailedAttempts # DOMAIN attempts
    /\ previous_hashes = CurrentHashes(schedule.groups)
    /\ previous_hashes # held_at_start

\* C6: an iteration that gets None from get_schedule leaves the held map as it
\* was, looks up no subscriber, dispatches nothing and goes to the sleep; so in
\* the next successful iteration of a Warm monitor the changed groups are those
\* that differ from the snapshot the held map was computed from.
C6_UnavailableLeavesState ==
    /\ (~schedule.ok => pc \in {"fetch", "diff", "sleep"})
    /\ (pc = "sleep" /\ ~schedule.ok =>
           /\ previous_hashes = held_at_start
           /\ ~subs_fetched
           /\ attempts = << >>
           /\ ~replaced)
    /\ (AfterDiff /\ ~replaced /\ prev_unavail /\ held_at_start # EmptyMap =>
           ChangedSet = { g \in DOMAIN schedule.groups :
                            g \notin DOMAIN held_snap \/ held_snap[g] # schedule.groups[g] })

\* C6 witness: after an Unavailable iteration a Warm monitor reports a change
C6_Witness ==
    /\ AfterDiff
    /\ ~replaced
    /\ prev_unavail
    /\ held_at_start # EmptyMap
    /\ changed_groups # << >>
    /\ \E g \in ChangedSet : g \in DOMAIN held_snap

\* C7: in src/schedule_bot.py every iteration whose parse succeeded and whose
\* subscriber store answered ends with the held map equal to the map computed
\* from the new snapshot: same keys, each value the hash of the group's entries.
C7_FullReplacement ==
    (variant = "main" /\ pc = "sleep" /\ schedule.ok /\ (subs_fetched => idx > 0)) =>
        /\ DOMAIN previous_hashes = DOMAIN schedule.groups
        /\ \A g \in DOMAIN schedule.groups :
              previous_hashes[g] = GroupHash(schedule.groups[g])

\* C8: a group that was in a successful snapshot, is absent from the latest
\* successful snapshot and reappears with the content it last had is reported
\* as changed.
C8_ReappearanceReported ==
    (AfterDiff /\ succ_count < MaxSucc) =>
        \A g \in DOMAIN schedule.groups :
            (/\ g \in DOMAIN last_seen
             /\ g \notin DOMAIN last_snap
             /\ last_seen[g] = schedule.groups[g]) => g \in ChangedSet

\* C9: the monitor is Warm after its first successful parse even when that
\* snapshot held no group: the groups of the next successful snapshot are all
\* reported as changed.
C9_WarmAfterEmptySnapshot ==
    (AfterDiff /\ succ_count = 1 /\ last_snap = EmptyMap) =>
        ChangedSet = DOMAIN schedule.groups

Phase(p) ==
    CASE p = "fetch" -> 1
      [] p = "diff" -> 2
      [] p \in {"subs", "next_sub", "send", "await_send"} -> 3
      [] p = "replace" -> 4
      [] p = "sleep" -> 5

Pending == { k \in DOMAIN attempts : attempts[k].result = "pending" }

\* C10: iterations are sequential. Within an iteration the position only moves
\* forward through fetch, diff, dispatch, replacement and sleep; a send_message
\* is only issued before the replacement; the held map changes only in the
\* replacement step, with no delivery outstanding; and the next fetch starts
\* only from the sleep, with no delivery outstanding.
C10_SequentialIterations ==
    [][ /\ (Phase(pc') >= Phase(pc) \/ (pc = "sleep" /\ pc' = "fetch"))
        /\ (Len(attempts') > Len(attempts) => Phase(pc) = 3 /\ ~replaced)
        /\ (previous_hashes' # previous_hashes =>
               pc = "replace" /\ pc' = "sleep" /\ Pending = {})
        /\ (pc' = "sleep" => Pending' = {})
        /\ (pc' = "fetch" => pc = "sleep" /\ Pending = {} /\ attempts' = << >>) ]_vars

\* C10 witness: an iteration that dispatched and then replaced the map is asleep
C10_Witness ==
    /\ pc = "sleep"
    /\ replaced
    /\ Len(attempts) >= 2
    /\ previous_hashes # held_at_start

-----------------------------------------------------------------------------
(* Properties of the monitor under interleaved command handlers *)

\* the dispatch set as the store stood when get_all_subscribers read it
DispatchAtFetch ==
    { << u, g >> \in fetch_store.subs \X Groups :
         /\ g \in ChangedSet
         /\ \/ fetch_store.main[u] = g
            \/ g \in Range(fetch_store.extra[u]) }

AttemptedPairs == { << attempts[k].to, attempts[k].group >> : k \in DOMAIN attempts }

RECURSIVE GroupsSentTo(_, _)
\* the groups of the sends to u, in the order of the calls
GroupsSentTo(att, u) ==
    IF att = << >> THEN << >>
    ELSE IF Head(att).to = u THEN << Head(att).group >> \o GroupsSentTo(Tail(att), u)
         ELSE GroupsSentTo(Tail(att), u)

\* C11 as stated: in src/schedule_bot_backup.py the notifications of an
\* iteration are those of the store as it stood at the single fetch of the
\* subscriber list; handlers interleaved at the awaits do not change who is
\* notified about which group.
C11_PointInTimeDispatch ==
    (variant = "backup" /\ pc = "sleep" /\ schedule.ok /\ idx > 0) =>
        /\ AttemptedPairs \subseteq DispatchAtFetch
        /\ (FailedAttempts = {} /\ lookup_failed = {} => DispatchAtFetch \subseteq AttemptedPairs)

\* C11 amended: the recipients of an iteration are those of the subscriber
\* list fetched once, whatever subscribe and unsubscribe do afterwards; the
\* groups of each recipient are read from the store when that recipient's pass
\* of the loop begins, and handlers interleaved during the sends of that pass
\* do not change them.
C11_RecipientsFixedGroupsPerPass ==
    (variant = "backup" /\ Phase(pc) \in {3, 4, 5} /\ idx > 0) =>
        /\ subscribers = AscendingSeq(fetch_store.subs)
        /\ \A k \in DOMAIN attempts :
              attempts[k].to \in fetch_store.subs /\ attempts[k].group \in ChangedSet
        /\ (pc = "send" /\ gidx = 1 =>
              user_changed_groups =
                  SeqFilterIn(GetUserAllGroups(user_id), ChangedSet))
        /\ (pc \in {"send", "await_send"} =>
              GroupsSentTo(attempts, user_id) =
                  SubSeq(user_changed_groups, 1, IF pc = "send" THEN gidx - 1 ELSE gidx))

\* C11 witness: handlers changed the store during the dispatch; a recipient
\* was notified about a group it did not track at the fetch, and a user who
\* unsubscribed after the fetch was notified all the same
C11_Witness ==
    /\ variant = "backup"
    /\ pc = "sleep"
    /\ schedule.ok
    /\ idx > Len(subscribers)
    /\ cmds > 0
    /\ AttemptedPairs \ DispatchAtFetch # {}
    /\ \E k \in DOMAIN attempts : attempts[k].to \notin subscribed

-----------------------------------------------------------------------------
(* Liveness of the poll loop *)

\* C12: the poll loop has no terminal state. Whatever has happened (a fetch or
\* parse failure, a subscriber-store failure, a delivery failure), the monitor
\* reaches the sleep again and again and starts another iteration again and
\* again.
C12_NoTerminalState ==
    /\ []<>(pc = "sleep")
    /\ []<>(pc = "fetch")
    /\ ((pc = "diff" /\ ~schedule.ok) ~> (pc = "fetch"))
    /\ (FailedAttempts # {} ~> (pc = "fetch"))
    /\ (lookup_failed # {} ~> (pc = "fetch"))
    /\ ((subs_fetched /\ idx = 0 /\ pc = "sleep") ~> (pc = "fetch"))

\* C12 witness: an iteration in which a delivery failed and a subscriber's
\* groups could not be read has reached the sleep
C12_Witness ==
    /\ pc = "sleep"
    /\ FailedAttempts # {}
    /\ lookup_failed # {}

-----------------------------------------------------------------------------
(* get_schedule: the request, the checks of the response and the row scan.    *)
(* A text is a sequence of characters.  The Cyrillic letters of the source    *)
(* are written in Latin: the marker 'нет' is "n","e","t".                     *)

\* longest row sequence of a fetched table
MaxRows == 3

Digits == {"1", "2", "3"}

UpperLetters == {"N", "E", "T"}

LowerLetters == {"a", "b", "c", "d", "e", "f", "h", "i", "k", "m", "n", "o", "p",
                 "r", "s", "t", "v", "y", "z"}

Whitespace == {" "}

\* c.isdigit()
IsDigit(c) == c \in Digits

\* c.isalpha()
IsAlpha(c) == c \in LowerLetters \cup UpperLetters

\* one character of str.lower()
LowerChar(c) ==
    CASE c = "N" -> "n"
      [] c = "E" -> "e"
      [] c = "T" -> "t"
      [] OTHER -> c

\* str.lower()
Lower(t) == [k \in DOMAIN t |-> LowerChar(t[k])]

RECURSIVE LStrip(_)
LStrip(t) ==
    IF t # << >> /\ Head(t) \in Whitespace THEN LStrip(Tail(t)) ELSE t

RECURSIVE RStrip(_)
RStrip(t) ==
    IF t # << >> /\ t[Len(t)] \in Whitespace THEN RStrip(SubSeq(t, 1, Len(t) - 1)) ELSE t

\* str.strip()
Strip(t) == RStrip(LStrip(t))

\* `pat in t`
Contains(t, pat) ==
    \E k \in 0 .. (Len(t) - Len(pat)) : SubSeq(t, k + 1, k + Len(pat)) = pat

RECURSIVE RemoveAll(_, _)
\* t.replace(old, '') for a non-empty old: every occurrence, left to right
RemoveAll(t, old) ==
    IF Len(t) < Len(old) THEN t
    ELSE IF SubSeq(t, 1, Len(old)) = old
         THEN RemoveAll(SubSeq(t, Len(old) + 1, Len(t)), old)
         ELSE << Head(t) >> \o RemoveAll(Tail(t), old)

RECURSIVE Rep(_, _)
\* the character c, n times
Rep(c, n) == IF n = 0 THEN << >> ELSE << c >> \o Rep(c, n - 1)

\* a tag that find() did not find
NoTag == [present |-> FALSE, text |-> << >>]

Tag(t) == [present |-> TRUE, text |-> t]

\* the string pieces of a content cell: plain text, or the text of a <small>
Plain(t) == [small |-> FALSE, text |-> t]

Small(t) == [small |-> TRUE, text |-> t]

NoContent == [present |-> FALSE, pieces |-> << >>]

Content(ps) == [present |-> TRUE, pieces |-> ps]

\* a nested table: its first th and its td whose style has 'overflow'
InnerTable(th, content) == [th |-> th, content |-> content]

(* header cell texts *)
H_ab1 == << "a", "b", "1" >>

H_cd2 == << "c", "d", "2" >>

\* raw length 17, trimmed length 3
H_ab1_padded == Rep(" ", 13) \o H_ab1 \o << " " >>

\* trimmed length 2
H_a1 == << "a", "1" >>

\* raw length 4, trimmed length 2
H_a1_padded == << " ", "a", "1", " " >>

\* no digit
H_abc == << "a", "b", "c" >>

\* no letter
H_123 == << "1", "2", "3" >>

\* length 15
H_len15 == << "e", "f", "-", "3" >> \o Rep("-", 10) \o << "k" >>

\* length 16
H_len16 == << "e", "f", "-", "3" >> \o Rep("-", 11) \o << "k" >>

\* the pair number of a nested table
H_pair == << "1" >>

(* subject and teacher texts *)
T_math == << "m", "a", "t", "h" >>

T_ivanov == << "i", "v", "a", "n", "o", "v" >>

T_net == << "n", "e", "t" >>

\* the marker in upper case, length 14
T_Net14 == << "N", "E", "T", " " >> \o Rep("z", 10)

\* the marker, length 15
T_net15 == << "n", "e", "t", " " >> \o Rep("z", 11)

T_fizika == << "f", "i", "z", "i", "k", "a" >>

\* a teacher whose name holds the marker
T_netov == << "n", "e", "t", "o", "v" >>

T_net_pary == << "n", "e", "t", " ", "p", "a", "r", "y" >>

T_petrova == << "p", "e", "t", "r", "o", "v", "a" >>

T_ivanov_seminar == T_ivanov \o << " ", "s", "e", "m", "i", "n", "a", "r" >>

\* no marker, length 2
T_pe == << "p", "e" >>

(* big cells: the nested tables of a direct td of a content row *)
CellA ==
    << InnerTable(Tag(<< "1" >>), Content(<< Plain(T_math), Small(T_ivanov) >>)),
       InnerTable(Tag(<< "2" >>), Content(<< Plain(T_net) >>)) >>

CellB ==
    << InnerTable(NoTag, Content(<< Plain(T_Net14) >>)),
       InnerTable(Tag(<< "2" >>), Content(<< Plain(T_net15) >>)),
       InnerTable(Tag(<< "3" >>), NoContent) >>

CellC ==
    << InnerTable(Tag(<< "1" >>), Content(<< Plain(T_fizika), Small(T_netov) >>)),
       InnerTable(Tag(<< "2" >>), Content(<< Plain(T_net_pary), Small(T_petrova) >>)) >>

CellD ==
    << InnerTable(Tag(<< " ", "3" >>), Content(<< Plain(T_ivanov_seminar), Small(T_ivanov) >>)),
       InnerTable(Tag(<< "2" >>), Content(<< Plain(T_pe) >>)) >>

\* a row of table.find_all('tr'): the texts of its th descendants and the
\* nested tables of each of its direct td children
Row(th, td) == [th |-> th, td |-> td]

RowChoices ==
    { Row(<< >>, << >>),
      Row(<< H_ab1, H_cd2 >>, << >>),
      Row(<< H_abc, H_ab1_padded, H_len16, H_cd2 >>, << >>),
      Row(<< H_a1, H_123, H_a1_padded, << >> >>, << >>),
      Row(<< H_len15 >>, << CellB >>),
      Row(<< H_cd2, H_ab1, H_cd2 >>, << CellD >>),
      Row(<< >>, << CellA >>),
      Row(<< H_pair, H_pair >>, << CellA, CellB, CellC >>),
      Row(<< H_pair >>, << CellD, CellC >>) }

RowSeqs == UNION { [1 .. n -> RowChoices] : n \in 0 .. MaxRows }

\* response.text: empty, whitespace only, markup without the table, markup with it
Documents ==
    { [text |-> << >>, table |-> FALSE, rows |-> << >>],
      [text |-> << " ", " " >>, table |-> FALSE, rows |-> << >>],
      [text |-> << "<", "p", ">" >>, table |-> FALSE, rows |-> << >>] }
    \cup { [text |-> << "<", "t", ">" >>, table |-> TRUE, rows |-> rs] : rs \in RowSeqs }

\* HTTP status codes of an answered request
StatusCodes == {200, 404, 503}

\* requests.get raises (timeout, connection refused) or returns a response
Responses ==
    { [kind |-> k, status |-> 0, doc |-> [text |-> << >>, table |-> FALSE, rows |-> << >>]] :
         k \in {"timeout", "refused"} }
    \cup { [kind |-> "http", status |-> st, doc |-> d] : st \in StatusCodes, d \in Documents }

\* `not response.text or response.text.strip() == ''`
IsBlank(text) == text = << >> \/ Strip(text) = << >>

\* TableAssumed: the scan without the `if not table` check
TableAssumed(doc) == TRUE

\* soup.find('table', class_='border') found a table
TableFound(doc) == doc.table

\* QualifiesAnyLength: the heuristic without the length bounds
QualifiesAnyLength(group_name) ==
    /\ group_name # << >>
    /\ \E k \in DOMAIN group_name : IsDigit(group_name[k])
    /\ \E k \in DOMAIN group_name : IsAlpha(group_name[k])

\* the group-name heuristic of the header cells
Qualifies(group_name) ==
    /\ group_name # << >>
    /\ 3 <= Len(group_name) /\ Len(group_name) <= 15
    /\ \E k \in DOMAIN group_name : IsDigit(group_name[k])
    /\ \E k \in DOMAIN group_name : IsAlpha(group_name[k])

RECURSIVE GroupsInBlock(_)
\* the `for th in group_headers` loop: th.get_text(strip=True), then the heuristic
GroupsInBlock(group_headers) ==
    IF group_headers = << >> THEN << >>
    ELSE LET group_name == Strip(Head(group_headers))
         IN (IF Qualifies(group_name) THEN << group_name >> ELSE << >>)
            \o GroupsInBlock(Tail(group_headers))

\* RegisterResets: every group of the block starts from an empty list
RegisterResets(groups_in_block, sbg) ==
    [g \in DOMAIN sbg \cup Range(groups_in_block) |->
        IF g \in Range(groups_in_block) THEN << >> ELSE sbg[g]]

\* `if group_name not in schedule_by_group: schedule_by_group[group_name] = []`
Register(groups_in_block, sbg) ==
    [g \in DOMAIN sbg \cup Range(groups_in_block) |->
        IF g \in DOMAIN sbg THEN sbg[g] ELSE << >>]

RECURSIVE JoinPieces(_)
\* get_text(separator=' ', strip=True): the trimmed non-empty pieces, joined by ' '
JoinPieces(pieces) ==
    IF pieces = << >> THEN << >>
    ELSE LET head == Strip(Head(pieces).text)
             rest == JoinPieces(Tail(pieces))
         IN IF head = << >> THEN rest
            ELSE IF rest = << >> THEN head
            ELSE head \o << " " >> \o rest

RECURSIVE FirstSmall(_)
\* content_td.find('small') and its get_text(strip=True), '' when there is none
FirstSmall(pieces) ==
    IF pieces = << >> THEN << >>
    ELSE IF Head(pieces).small THEN Strip(Head(pieces).text)
    ELSE FirstSmall(Tail(pieces))

\* subject: the cell text without the teacher
SubjectOf(content) ==
    LET subject_text == JoinPieces(content.pieces)
        teacher == FirstSmall(content.pieces)
    IN IF teacher # << >> THEN Strip(RemoveAll(subject_text, teacher)) ELSE subject_text

\* NoClassCaseSensitive: the filter without .lower()
NoClassCaseSensitive(subject) == Contains(subject, T_net) /\ Len(subject) < 15

\* `'нет' in subject.lower() and len(subject) < 15`
NoClass(subject) == Contains(Lower(subject), T_net) /\ Len(subject) < 15

\* the dict appended for a nested table
EntryOf(inner_table) ==
    [pair_number |-> IF inner_table.th.present THEN Strip(inner_table.th.text) ELSE << "?" >>,
     subject |-> SubjectOf(inner_table.content),
     teacher |-> FirstSmall(inner_table.content.pieces)]

RECURSIVE TableEntries(_)
\* the `for inner_table in inner_tables` loop of one big cell
TableEntries(inner_tables) ==
    IF inner_tables = << >> THEN << >>
    ELSE LET inner_table == Head(inner_tables)
             rest == TableEntries(Tail(inner_tables))
         IN IF inner_table.content.present /\ ~NoClass(SubjectOf(inner_table.content))
            THEN << EntryOf(inner_table) >> \o rest
            ELSE rest

\* TargetGroupByHeaderCell: the cell is matched with the header cell above it
TargetGroupByHeaderCell(group_headers, groups_in_block, col_index) ==
    IF col_index < Len(group_headers) /\ Qualifies(Strip(group_headers[col_index + 1]))
    THEN Strip(group_headers[col_index + 1])
    ELSE groups_in_block[col_index + 1]

\* group_name = groups_in_block[col_index]
TargetGroup(group_headers, groups_in_block, col_index) == groups_in_block[col_index + 1]

RECURSIVE CellsLoop(_, _, _, _, _)
\* the `for col_index, big_cell in enumerate(schedule_cells)` loop with its break
CellsLoop(schedule_cells, group_headers, groups_in_block, col_index, sbg) ==
    IF schedule_cells = << >> \/ col_index >= Len(groups_in_block) THEN sbg
    ELSE LET group_name == TargetGroup(group_headers, groups_in_block, col_index)
         IN CellsLoop(Tail(schedule_cells), group_headers, groups_in_block, col_index + 1,
                      [sbg EXCEPT ![group_name] = @ \o TableEntries(Head(schedule_cells))])

\* the parameter group_filter; every caller leaves it at its default
NoFilter == << >>

\* EmptyIsNone: a scan that registered no group returns None
EmptyIsNone(sbg, group_filter) ==
    IF DOMAIN sbg = {} THEN None ELSE [ok |-> TRUE, groups |-> sbg]

\* the value get_schedule returns after the scan
ReturnValue(sbg, group_filter) ==
    IF group_filter # NoFilter
    THEN IF group_filter \in DOMAIN sbg
         THEN [ok |-> TRUE, groups |-> [g \in {group_filter} |-> sbg[g]]]
         ELSE None
    ELSE [ok |-> TRUE, groups |-> sbg]

\* a call get_schedule() begins; the outcome of requests.get is the input
InitParse ==
    /\ variant = "main"
    /\ main_group = [u \in Users |-> "None"]
    /\ extra_groups = [u \in Users |-> << >>]
    /\ subscribed = {}
    /\ SteadyLocals
    /\ response \in Responses
    /\ rows = << >>
    /\ i = 0
    /\ schedule_by_group = EmptyMap
    /\ result = None
    /\ ppc = "request"
    /\ steps = << >>
    /\ QueryIdle

\* what get_schedule never touches
bot_vars == << monitor_vars, main_group, extra_groups, subscribed, cmds, query_vars >>

\* requests.get, the two checks of the response, rows = table.find_all('tr');
\* an exception of requests.get reaches `except Exception` and returns None
Request ==
    /\ ppc = "request"
    /\ IF response.kind # "http" \/ IsBlank(response.doc.text) \/ ~TableFound(response.doc)
       THEN /\ result' = None
            /\ ppc' = "done"
            /\ UNCHANGED << rows, i, schedule_by_group >>
       ELSE /\ rows' = response.doc.rows
            /\ i' = 0
            /\ schedule_by_group' = EmptyMap
            /\ ppc' = "scan"
            /\ UNCHANGED result
    /\ UNCHANGED << bot_vars, response, steps >>

\* ScanRowStepsOne: the cursor moves by one row after a block as well
ScanRowStepsOne ==
    /\ ppc = "scan"
    /\ i < Len(rows)
    /\ LET row == rows[i + 1]
           group_headers == row.th
           groups_in_block == GroupsInBlock(group_headers)
           block == Len(group_headers) > 0 /\ Len(groups_in_block) > 0
           has_next == i + 1 < Len(rows)
           registered == Register(groups_in_block, schedule_by_group)
           filled == IF has_next
                     THEN CellsLoop(rows[i + 2].td, group_headers, groups_in_block, 0,
                                    registered)
                     ELSE registered
       IN /\ schedule_by_group' = IF block THEN filled ELSE schedule_by_group
          /\ i' = i + 1
          /\ steps' = Append(steps, [at |-> i, by |-> i' - i, groups |-> groups_in_block,
                                     before |-> schedule_by_group,
                                     after |-> schedule_by_group'])
    /\ UNCHANGED << bot_vars, response, rows, result, ppc >>

\* ScanRowSkipsPastEnd: the cursor moves by two rows after every block, with
\* or without a row after the header
ScanRowSkipsPastEnd ==
    /\ ppc = "scan"
    /\ i < Len(rows)
    /\ LET row == rows[i + 1]
           group_headers == row.th
           groups_in_block == GroupsInBlock(group_headers)
           block == Len(group_headers) > 0 /\ Len(groups_in_block) > 0
           has_next == i + 1 < Len(rows)
           registered == Register(groups_in_block, schedule_by_group)
           filled == IF has_next
                     THEN CellsLoop(rows[i + 2].td, group_headers, groups_in_block, 0,
                                    registered)
                     ELSE registered
       IN /\ schedule_by_group' = IF block THEN filled ELSE schedule_by_group
          /\ i' = IF block THEN i + 2 ELSE i + 1
          /\ steps' = Append(steps, [at |-> i, by |-> i' - i, groups |-> groups_in_block,
                                     before |-> schedule_by_group,
                                     after |-> schedule_by_group'])
    /\ UNCHANGED << bot_vars, response, rows, result, ppc >>

\* one pass of `while i < len(rows)`
ScanRow ==
    /\ ppc = "scan"
    /\ i < Len(rows)
    /\ LET row == rows[i + 1]
           group_headers == row.th
           groups_in_block == GroupsInBlock(group_headers)
           block == Len(group_headers) > 0 /\ Len(groups_in_block) > 0
           has_next == i + 1 < Len(rows)
           registered == Register(groups_in_block, schedule_by_group)
           filled == IF has_next
                     THEN CellsLoop(rows[i + 2].td, group_headers, groups_in_block, 0,
                                    registered)
                     ELSE registered
       IN /\ schedule_by_group' = IF block THEN filled ELSE schedule_by_group
          /\ i' = IF block /\ has_next THEN i + 2 ELSE i + 1
          /\ steps' = Append(steps, [at |-> i, by |-> i' - i, groups |-> groups_in_block,
                                     before |-> schedule_by_group,
                                     after |-> schedule_by_group'])
    /\ UNCHANGED << bot_vars, response, rows, result, ppc >>

\* the scan is over: result, the group_filter branch, return
Return ==
    /\ ppc = "scan"
    /\ i >= Len(rows)
    /\ result' = ReturnValue(schedule_by_group, NoFilter)
    /\ ppc' = "done"
    /\ UNCHANGED << bot_vars, response, rows, i, schedule_by_group, steps >>

NextParse ==
    \/ Request
    \/ ScanRow
    \/ Return

SpecParse == InitParse /\ [][NextParse]_vars

-----------------------------------------------------------------------------
(* Properties of get_schedule *)

Returned == ppc = "done"

Answered == response.kind = "http"

AllWhitespace(text) == \A k \in DOMAIN text : text[k] \in Whitespace

\* the header-cell rule of the specification, on the trimmed text
HeaderRule(t) ==
    /\ Len(t) \in 3 .. 15
    /\ \E k \in DOMAIN t : t[k] \in Digits
    /\ \E k \in DOMAIN t : t[k] \in LowerLetters \cup UpperLetters

TrimmedHeaders(row) == [k \in DOMAIN row.th |-> Strip(row.th[k])]

QualifyingHeaders(row) == SelectSeq(TrimmedHeaders(row), LAMBDA t : HeaderRule(t))

\* the steps of the scan that found a block header
BlockSteps == { k \in DOMAIN steps : steps[k].groups # << >> }

\* the steps that consumed the following row as the block's content row
ContentSteps == { k \in BlockSteps : steps[k].by = 2 }

ContentCells(k) == rows[steps[k].at + 2].td

\* C13 as stated: every failure of the fetch (timeout, connection refused,
\* non-2xx status) makes get_schedule return None; the body of a non-2xx
\* response is never scanned.
C13_FetchFailureIsUnavailable ==
    (Returned /\ (~Answered \/ response.status \notin 200 .. 299)) =>
        /\ result = None
        /\ steps = << >>

\* C14: get_schedule returns None when the response text is empty or
\* whitespace only, and when the markup has no table of class border.
C14_BlankOrTablelessIsNone ==
    (Returned /\ Answered /\ (AllWhitespace(response.doc.text) \/ ~response.doc.table)) =>
        /\ result = None
        /\ steps = << >>

\* C14 witness: markup without the table was answered and None returned
C14_Witness ==
    /\ Returned
    /\ Answered
    /\ ~AllWhitespace(response.doc.text)
    /\ ~response.doc.table
    /\ result = None

\* C15: markup that has the table but no row with a qualifying header cell
\* gives a snapshot with an empty groups mapping, not None.
C15_NoQualifyingHeaderIsEmptySnapshot ==
    (/\ Returned
     /\ Answered
     /\ ~AllWhitespace(response.doc.text)
     /\ response.doc.table
     /\ \A k \in DOMAIN response.doc.rows : QualifyingHeaders(response.doc.rows[k]) = << >>) =>
        /\ result.ok
        /\ result.groups = EmptyMap

\* C15 witness: rows without header cells and rows whose header cells all
\* fail the rule were scanned and an empty snapshot returned
C15_Witness ==
    /\ Returned
    /\ result.ok
    /\ result.groups = EmptyMap
    /\ \E k \in DOMAIN rows : rows[k].th = << >>
    /\ \E k \in DOMAIN rows : Len(rows[k].th) >= 3

\* C16: a header cell contributes a group iff its trimmed text has length 3
\* to 15 with a letter and a digit; the other cells are discarded; a row with
\* header cells of which none qualifies registers nothing and moves the cursor
\* by one.
C16_HeaderHeuristic ==
    \A k \in DOMAIN steps :
        LET s == steps[k]
            row == rows[s.at + 1]
        IN /\ s.groups = QualifyingHeaders(row)
           /\ DOMAIN s.after = DOMAIN s.before \cup Range(s.groups)
           /\ (row.th # << >> /\ QualifyingHeaders(row) = << >> =>
                  s.after = s.before /\ s.by = 1)

\* C16 witness: the scan passed a row whose header cells all fail and a row
\* of which some header cells qualify and some do not
C16_Witness ==
    /\ Returned
    /\ \E k \in DOMAIN steps :
          rows[steps[k].at + 1].th # << >> /\ steps[k].groups = << >>
    /\ \E k \in DOMAIN steps :
          Len(steps[k].groups) = 2 /\ Len(rows[steps[k].at + 1].th) = 4

RECURSIVE EntriesFor(_, _, _, _)
\* the entries of the cells whose position in the content row is the position
\* of grp in the block's groups, in cell order
EntriesFor(cells, groups, col, grp) ==
    IF col > Len(cells) THEN << >>
    ELSE (IF col <= Len(groups) /\ groups[col] = grp THEN TableEntries(cells[col]) ELSE << >>)
         \o EntriesFor(cells, groups, col + 1, grp)

\* C17: the entries of the i-th direct cell of a content row go to the group
\* at index i of the block's qualifying groups and to no other; cells at an
\* index at or beyond the number of groups add nothing.
C17_PositionalMapping ==
    \A k \in ContentSteps :
        LET s == steps[k]
        IN \A grp \in DOMAIN s.after :
              s.after[grp] =
                  (IF grp \in DOMAIN s.before THEN s.before[grp] ELSE << >>)
                  \o EntriesFor(ContentCells(k), s.groups, 1, grp)

\* C17 witness: a content row with more cells than the block has groups; the
\* block's header row has a non-qualifying cell before the qualifying ones,
\* both groups got entries and the cell beyond them holds entries too
C17_Witness ==
    /\ Returned
    /\ \E k \in ContentSteps :
          LET s == steps[k]
          IN /\ Len(s.groups) = 2
             /\ Len(rows[s.at + 1].th) > 2
             /\ Len(ContentCells(k)) > 2
             /\ TableEntries(ContentCells(k)[3]) # << >>
             /\ \A grp \in Range(s.groups) : s.after[grp] # << >>
             /\ s.after[s.groups[1]] # s.after[s.groups[2]]

\* C18 as stated: the groups of a qualifying header in the last row are keys
\* of the returned snapshot, each with an empty schedule, and the cursor moves
\* by one; with a row after the header the cursor moves by two.
C18_LastHeaderRegistersEmpty ==
    (Returned /\ result.ok) =>
        \A k \in BlockSteps :
            LET s == steps[k]
            IN IF s.at = Len(rows) - 1
               THEN /\ s.by = 1
                    /\ \A g \in Range(s.groups) :
                          g \in DOMAIN result.groups /\ result.groups[g] = << >>
               ELSE s.by = 2

\* C18 amended: the groups of a qualifying header in the last row are keys of
\* the returned snapshot; one that no earlier block registered has an empty
\* schedule, one that an earlier block registered keeps the entries collected
\* there; the cursor moves by one, and by two when a row follows the header.
C18_LastHeaderKeepsEarlierEntries ==
    (Returned /\ result.ok) =>
        \A k \in BlockSteps :
            LET s == steps[k]
            IN IF s.at = Len(rows) - 1
               THEN /\ s.by = 1
                    /\ \A g \in Range(s.groups) :
                          /\ g \in DOMAIN result.groups
                          /\ result.groups[g] =
                                IF g \in DOMAIN s.before THEN s.before[g] ELSE << >>
               ELSE s.by = 2

\* C18 witness: the last row is a qualifying header naming a group that holds
\* entries of an earlier block and a group that holds none
C18_Witness ==
    /\ Returned
    /\ result.ok
    /\ \E k \in BlockSteps :
          /\ steps[k].at = Len(rows) - 1
          /\ \E g \in Range(steps[k].groups) : result.groups[g] # << >>
          /\ \E g \in Range(steps[k].groups) : result.groups[g] = << >>

\* the marker of the specification in a text, whatever the case of its letters
HasMarker(t) ==
    \E k \in 1 .. (Len(t) - 2) :
        /\ t[k] \in {"n", "N"}
        /\ t[k + 1] \in {"e", "E"}
        /\ t[k + 2] \in {"t", "T"}

\* C19: a nested table with a content cell yields no entry exactly when its
\* subject, the teacher removed, holds the marker in any case and is shorter
\* than 15; with 15 characters or more, or without the marker, the entry stays.
C19_NoClassFilter ==
    \A k \in ContentSteps :
        \A col \in DOMAIN ContentCells(k) :
            col <= Len(steps[k].groups) =>
                LET cell == ContentCells(k)[col]
                    kept == SelectSeq(cell, LAMBDA tb :
                               /\ tb.content.present
                               /\ ~(HasMarker(SubjectOf(tb.content))
                                    /\ Len(SubjectOf(tb.content)) < 15))
                IN /\ TableEntries(cell) = [n \in DOMAIN kept |-> EntryOf(kept[n])]
                   /\ \A n \in DOMAIN kept :
                         \E m \in DOMAIN steps[k].after[steps[k].groups[col]] :
                            steps[k].after[steps[k].groups[col]][m] = EntryOf(kept[n])

\* C19 witness: the scan took a cell with a marker subject of length 14 in
\* upper case (filtered) and one of length 15 (kept), and a cell whose marker
\* is only in the teacher's name (kept)
C19_Witness ==
    /\ Returned
    /\ \E k \in ContentSteps :
          LET g == steps[k].groups
              cells == ContentCells(k)
          IN /\ \E col \in DOMAIN cells :
                   /\ col <= Len(g)
                   /\ cells[col] = CellB
                   /\ \E m \in DOMAIN result.groups[g[col]] :
                         result.groups[g[col]][m].subject = T_net15
                   /\ \A m \in DOMAIN result.groups[g[col]] :
                         result.groups[g[col]][m].subject # T_Net14
             /\ \E col \in DOMAIN cells :
                   /\ col <= Len(g)
                   /\ cells[col] = CellC
                   /\ \E m \in DOMAIN result.groups[g[col]] :
                         /\ result.groups[g[col]][m].subject = T_fizika
                         /\ result.groups[g[col]][m].teacher = T_netov

-----------------------------------------------------------------------------
(* Order sensitivity of the group hash *)

\* b holds the entries of a, each as often
IsReordering(a, b) ==
    /\ Len(a) = Len(b)
    /\ \A x \in Range(a) \cup Range(b) :
          Cardinality({ k \in DOMAIN a : a[k] = x }) = Cardinality({ k \in DOMAIN b : b[k] = x })

\* C20: the hash is order-sensitive. In a Warm state a group whose entries in
\* the new snapshot are those of the previous successful snapshot in another
\* order has another hash and is reported as changed; equal sequences have
\* equal hashes.
C20_OrderSensitiveHash ==
    (AfterDiff /\ succ_count >= 1 /\ succ_count < MaxSucc /\ held_at_start # EmptyMap) =>
        \A g \in DOMAIN schedule.groups \cap DOMAIN last_snap :
            /\ (schedule.groups[g] = last_snap[g] =>
                   GroupHash(schedule.groups[g]) = GroupHash(last_snap[g]))
            /\ (IsReordering(schedule.groups[g], last_snap[g])
                /\ schedule.groups[g] # last_snap[g] =>
                   /\ GroupHash(schedule.groups[g]) # GroupHash(last_snap[g])
                   /\ g \in ChangedSet)

-----------------------------------------------------------------------------
(* A failure of get_all_subscribers *)

\* get_all_subscribers raised in the running iteration
StoreFailed == subs_fetched /\ idx = 0

\* C26: when get_all_subscribers raises in an iteration with changed groups,
\* the iteration leaves the held map as it was and goes to the sleep, and the
\* next iteration that parses the same snapshot computes the same changed
\* groups again.
C26_StoreFailureRetries ==
    /\ (pc = "sleep" /\ StoreFailed =>
           /\ changed_groups # << >>
           /\ previous_hashes = held_at_start
           /\ ~replaced
           /\ attempts = << >>)
    /\ (AfterDiff /\ succ_count < MaxSucc /\ retry_groups # << >>
        /\ schedule.groups = last_snap =>
           changed_groups = retry_groups)

\* C26 witness: after an iteration in which get_all_subscribers raised and an
\* iteration without a snapshot, the same snapshot is parsed and the same
\* groups are changed again
C26_Witness ==
    /\ AfterDiff
    /\ succ_count < MaxSucc
    /\ prev_unavail
    /\ retry_groups # << >>
    /\ schedule.groups = last_snap
    /\ changed_groups = retry_groups

-----------------------------------------------------------------------------
(* The query layer (get_all_teachers, search_teachers, find_teacher_schedule) *)
(* and the handlers of src/schedule_bot.py that call get_schedule.            *)

\* most entries of a group in a snapshot handed to the query layer
MaxPairs == 2

T_Netov == << "N", "e", "t", "o", "v" >>

T_netova == T_netov \o << "a" >>

\* pair['teacher'] of an entry: '' or a name
TeacherChoices == { << >>, T_net, T_netov, T_Netov, T_netova }

PairNumbers == << "1", "2", "3", "4" >>

EntrySeqs ==
    UNION { [1 .. n -> { [pair_number |-> << d >>, subject |-> T_math, teacher |-> t] :
                            d \in Range(PairNumbers), t \in TeacherChoices }] :
            n \in 0 .. MaxPairs }

\* a group's entries, numbered in order
NumberedSeqs == { es \in EntrySeqs : \A k \in DOMAIN es : es[k].pair_number = << PairNumbers[k] >> }

\* what get_schedule can have returned to a handler
QuerySchedules ==
    { None } \cup
    { [ok |-> TRUE, groups |-> gs] : gs \in UNION { [S -> NumberedSeqs] : S \in SUBSET Groups } }

\* what the user types after /teacher, or the name on a teacher button
Queries == { T_netov, << "N", "E", "T", "o", "v" >>, T_net, T_netova, << "v", "a", "n" >> }

\* the characters of the names in code point order
CharOrder == << "E", "N", "T", "a", "e", "n", "o", "t", "v" >>

CharCode(c) == CHOOSE k \in DOMAIN CharOrder : CharOrder[k] = c

RECURSIVE TextLess(_, _)
\* a < b of two str
TextLess(a, b) ==
    IF b = << >> THEN FALSE
    ELSE IF a = << >> THEN TRUE
    ELSE IF Head(a) = Head(b) THEN TextLess(Tail(a), Tail(b))
    ELSE CharCode(Head(a)) < CharCode(Head(b))

RECURSIVE Sorted(_)
\* sorted(list(S)) of a set of str
Sorted(S) ==
    IF S = {} THEN << >>
    ELSE LET m == CHOOSE x \in S : \A y \in S \ {x} : TextLess(x, y)
         IN << m >> \o Sorted(S \ {m})

\* the lists that iterating a set can give: every order of its elements
SetOrders(S) ==
    { f \in [1 .. Cardinality(S) -> S] : \A a, b \in DOMAIN f : a # b => f[a] # f[b] }

\* get_all_teachers: the non-empty teacher fields of a snapshot
GetAllTeachers(schedule_data) ==
    IF ~schedule_data.ok THEN {}
    ELSE { e.teacher : e \in UNION { Range(schedule_data.groups[g]) :
                                        g \in DOMAIN schedule_data.groups } } \ { << >> }

\* PartialAlways: the search without the exact-match branch
PartialAlways(exact_matches, matches) == { Sorted(matches) }

\* `if exact_matches: return exact_matches`, else `sorted(list(matches))`;
\* exact_matches is in the iteration order of the set all_teachers
SearchResult(exact_matches, matches) ==
    IF exact_matches # {} THEN SetOrders(exact_matches) ELSE { Sorted(matches) }

\* the lists search_teachers can return
SearchTeachers(q, schedule_data) ==
    LET all_teachers == GetAllTeachers(schedule_data)
        query_lower == Lower(q)
    IN SearchResult({ t \in all_teachers : Lower(t) = query_lower },
                    { t \in all_teachers : Contains(Lower(t), query_lower) })

\* `teacher and (teacher_lower == teacher.lower() or teacher_lower in teacher.lower())`
TeacherMatches(teacher_lower, teacher) ==
    teacher # << >>
    /\ (teacher_lower = Lower(teacher) \/ Contains(Lower(teacher), teacher_lower))

\* find_teacher_schedule: per group the matching entries, groups without any left out
FindTeacherSchedule(teacher_name, schedule_data) ==
    IF ~schedule_data.ok THEN EmptyMap
    ELSE LET teacher_lower == Lower(teacher_name)
             matching_pairs(g) ==
                 SelectSeq(schedule_data.groups[g],
                           LAMBDA pair : TeacherMatches(teacher_lower, pair.teacher))
         IN [g \in { h \in DOMAIN schedule_data.groups : matching_pairs(h) # << >> } |->
                matching_pairs(g)]

\* a handler is entered; what its get_schedule() call returns is the input
InitQuery ==
    /\ variant = "main"
    /\ main_group = [u \in Users |-> "G1"]
    /\ extra_groups = [u \in Users |-> << >>]
    /\ subscribed = {}
    /\ SteadyLocals
    /\ ParseIdle
    /\ q_schedule \in QuerySchedules
    /\ query \in Queries
    /\ found_teachers = << >>
    /\ teacher_data = EmptyMap
    /\ outcome = NoOutcome
    /\ qpc = "start"

\* what these handlers leave alone
rest_vars == << monitor_vars, main_group, extra_groups, subscribed, cmds, parse_vars >>

\* /today: the rate limit, the user's groups, get_schedule, one message per group
Today ==
    /\ qpc = "start"
    /\ outcome' = Outcome("today", FALSE, FALSE)
    /\ qpc' = "done"
    /\ UNCHANGED << rest_vars, q_schedule, query, found_teachers, teacher_data >>

\* /setgroup without arguments: the list of the snapshot's groups; the example
\* line reads groups[0]
SetGroupList ==
    /\ qpc = "start"
    /\ outcome' = Outcome("setgroup", q_schedule.ok /\ DOMAIN q_schedule.groups = {}, FALSE)
    /\ qpc' = "done"
    /\ UNCHANGED << rest_vars, q_schedule, query, found_teachers, teacher_data >>

\* /teacher <name>: the rate limit, get_schedule, `if not schedule`, search_teachers
TeacherSearch ==
    /\ qpc = "start"
    /\ \E allowed \in BOOLEAN :
          IF allowed /\ q_schedule.ok
          THEN /\ found_teachers' \in SearchTeachers(query, q_schedule)
               /\ qpc' = "found"
               /\ UNCHANGED outcome
          ELSE /\ outcome' = Outcome("teacher", FALSE, FALSE)
               /\ qpc' = "done"
               /\ UNCHANGED found_teachers
    /\ UNCHANGED << rest_vars, q_schedule, query, teacher_data >>

\* /teacher after the search: nobody found, one found and shown, or a keyboard
TeacherReply ==
    /\ qpc = "found"
    /\ IF Len(found_teachers) = 1
       THEN /\ teacher_data' = FindTeacherSchedule(found_teachers[1], q_schedule)
            /\ outcome' = Outcome("teacher", FALSE, TRUE)
       ELSE /\ outcome' = Outcome("teacher", FALSE, FALSE)
            /\ UNCHANGED teacher_data
    /\ qpc' = "done"
    /\ UNCHANGED << rest_vars, q_schedule, query, found_teachers >>

\* a teacher button of handle_callback_query: get_schedule, find_teacher_schedule,
\* then schedule.get('date', ...), which raises when schedule is None
SelectTeacher ==
    /\ qpc = "start"
    /\ teacher_data' = FindTeacherSchedule(query, q_schedule)
    /\ outcome' = Outcome("select_teacher", ~q_schedule.ok, q_schedule.ok)
    /\ qpc' = "done"
    /\ UNCHANGED << rest_vars, q_schedule, query, found_teachers >>

NextQuery ==
    \/ Today
    \/ SetGroupList
    \/ TeacherSearch
    \/ TeacherReply
    \/ SelectTeacher

SpecQuery == InitQuery /\ [][NextQuery]_vars

-----------------------------------------------------------------------------
(* Properties of the query layer *)

\* search_teachers has returned to the teacher command
Searched == qpc = "found"

\* the snapshot's names that equal the query, and those that contain it
ExactNames == { t \in GetAllTeachers(q_schedule) : Lower(t) = Lower(query) }

PartialNames == { t \in GetAllTeachers(q_schedule) : Contains(Lower(t), Lower(query)) }

\* C21: when a name of the snapshot equals the query case-insensitively, the
\* result of search_teachers holds exactly the names that equal it; when none
\* does, it holds exactly the names that contain the query (possibly none).
C21_ExactMatchPrecedence ==
    Searched =>
        Range(found_teachers) = IF ExactNames # {} THEN ExactNames ELSE PartialNames

C21_Witness ==
    /\ Searched
    /\ ExactNames # {}
    /\ PartialNames \ ExactNames # {}
    /\ Range(found_teachers) = ExactNames

C21_WitnessNoMatch ==
    Searched /\ GetAllTeachers(q_schedule) # {} /\ found_teachers = << >>

\* C22: the sequence search_teachers returns is strictly ascending (sorted and
\* without duplicates), whichever branch produced it.
C22_ResultSorted ==
    Searched =>
        \A k \in 1 .. Len(found_teachers) - 1 :
            TextLess(found_teachers[k], found_teachers[k + 1])

\* find_teacher_schedule has run on a snapshot, for this name
Shown == qpc = "done" /\ outcome.shown

ShownName == IF outcome.handler = "teacher" THEN found_teachers[1] ELSE query

\* the containment the text describes: equal, or either one inside the other
SymmetricMatch(name, teacher) ==
    /\ teacher # << >>
    /\ \/ Lower(teacher) = Lower(name)
       \/ Contains(Lower(teacher), Lower(name))
       \/ Contains(Lower(name), Lower(teacher))

\* C23: the result of find_teacher_schedule holds, per group, exactly the
\* entries whose non-empty teacher equals the name, contains it or is contained
\* in it (case-insensitively); a group without such an entry is not a key.
C23_SymmetricContainment ==
    Shown =>
        \A g \in DOMAIN q_schedule.groups :
            LET expected == SelectSeq(q_schedule.groups[g],
                                      LAMBDA pair : SymmetricMatch(ShownName, pair.teacher))
            IN /\ g \in DOMAIN teacher_data <=> expected # << >>
               /\ g \in DOMAIN teacher_data => teacher_data[g] = expected

\* C24: a handler whose get_schedule() call returned None ends without an
\* exception.
C24_UnavailableIsNotAnError ==
    qpc = "done" /\ ~q_schedule.ok => ~outcome.raised

\* C27: when the teacher command shows the single name that equals the query,
\* every entry it shows has a teacher that equals that name case-insensitively.
C27_ExactMatchShowsOnlyThatTeacher ==
    Shown /\ outcome.handler = "teacher" /\ Lower(found_teachers[1]) = Lower(query) =>
        \A g \in DOMAIN teacher_data :
            \A k \in DOMAIN teacher_data[g] :
                Lower(teacher_data[g][k].teacher) = Lower(found_teachers[1])

-----------------------------------------------------------------------------
(* Properties of the tracked groups under the commands *)

\* C25: whatever setgroup, addgroup and removegroup commands were handled, an
\* iteration calls send_message at most once per subscriber and changed group,
\* and no user's tracked-group list names a group twice.
C25_OneNotificationPerGroup ==
    \A u \in Users, g \in Groups :
        /\ Cardinality(AttemptsTo(u, g)) <= 1
        /\ Cardinality({ k \in DOMAIN GetUserAllGroups(u) : GetUserAllGroups(u)[k] = g }) <= 1

-----------------------------------------------------------------------------
(* The start command among the commands that write the store *)

\* /start.  src/schedule_bot.py calls set_user_group(user_id, None), an INSERT
\* ... ON CONFLICT (user_id) DO UPDATE SET group_name = EXCLUDED.group_name;
\* src/schedule_bot_backup.py only replies
Start ==
    /\ Handled
    /\ \E u \in Users :
          main_group' = IF variant = "main"
                        THEN [main_group EXCEPT ![u] = "None"]
                        ELSE main_group
    /\ UNCHANGED << extra_groups, subscribed >>

\* the commands arrive while monitor_schedule sleeps between two iterations
InitUser ==
    /\ variant \in Variants
    /\ \E st \in StoreChoices :
          /\ main_group = st.main
          /\ extra_groups = st.extra
          /\ subscribed = st.subs
    /\ previous_hashes = EmptyMap
    /\ schedule = None
    /\ current_hashes = EmptyMap
    /\ changed_groups = << >>
    /\ subscribers = << >>
    /\ idx = 0
    /\ user_id = Unbound
    /\ user_changed_groups = << >>
    /\ gidx = 0
    /\ pc = "sleep"
    /\ held_at_start = EmptyMap
    /\ attempts = << >>
    /\ subs_fetched = FALSE
    /\ lookup_failed = {}
    /\ replaced = FALSE
    /\ succ_count = MaxSucc
    /\ last_snap = EmptyMap
    /\ before_last_same = FALSE
    /\ last_seen = EmptyMap
    /\ prev_unavail = FALSE
    /\ held_snap = EmptyMap
    /\ fetch_store = NoStore
    /\ cmds = 0
    /\ retry_groups = << >>
    /\ ParseIdle
    /\ QueryIdle

NextUser ==
    \/ Start
    \/ SetGroup
    \/ AddGroup
    \/ RemoveGroup
    \/ Subscribe
    \/ Unsubscribe

SpecUser == InitUser /\ [][NextUser]_vars

\* C28: a start command leaves the main group of every user who has one, the
\* extra groups and the subscriptions as they were.
C28_StartKeepsRegistration ==
    [][Start =>
          /\ \A u \in Users : main_group[u] # "None" => main_group'[u] = main_group[u]
          /\ UNCHANGED << extra_groups, subscribed >>]_vars

-----------------------------------------------------------------------------
(* Properties of the row cursor of get_schedule *)

\* the loop passes at a qualifying header that has a row after it
FollowedBlockSteps == { k \in BlockSteps : steps[k].at + 1 < Len(rows) }

\* the row after the header of pass k (rows[i + 1] of the code)
RowAfter(k) == rows[steps[k].at + 2]

\* C29: the row after a qualifying header is consumed with it: the cursor moves
\* by two, no pass of the loop starts at that row, the next pass starts at the
\* row after it, and a group name among that row's own header cells is a key
\* only if the header of some pass registered it.
C29_ContentRowNeverHeader ==
    \A k \in FollowedBlockSteps :
        /\ steps[k].by = 2
        /\ \A j \in DOMAIN steps : steps[j].at # steps[k].at + 1
        /\ k < Len(steps) => steps[k + 1].at = steps[k].at + 2
        /\ k = Len(steps) => i = steps[k].at + 2
        /\ \A g \in Range(GroupsInBlock(RowAfter(k).th)) :
              g \in DOMAIN schedule_by_group =>
                  \E j \in DOMAIN steps : g \in Range(steps[j].groups)

\* a consumed row carried qualifying header cells of its own, and their
\* names are no keys of the scan's result
C29_Witness ==
    /\ Returned
    /\ \E k \in FollowedBlockSteps :
          /\ GroupsInBlock(RowAfter(k).th) # << >>
          /\ Range(GroupsInBlock(RowAfter(k).th)) \cap DOMAIN schedule_by_group = {}
          /\ k < Len(steps)

\* a pass of the loop can be made: ScanRow is enabled exactly here, its LET
\* being defined for every row and the pass always moving the cursor
ScanGuard == ppc = "scan" /\ i < Len(rows)

\* weak fairness of ScanRow, with ENABLED << ScanRow >>_vars written as the
\* guard it is equal to
ScanRowFair == []<>(~ScanGuard) \/ []<><< ScanRow >>_vars

\* get_schedule is a synchronous call: once entered it runs on to its return
SpecParseLive ==
    InitParse /\ [][NextParse]_vars /\ WF_vars(Request) /\ WF_vars(Return) /\ ScanRowFair

\* the passes of the loop so far: each starts at a row that exists and where
\* the one before ended, moves by one or by two, and moves by two only when
\* the row after it exists
CursorSafe ==
    /\ i <= Len(rows)
    /\ \A k \in DOMAIN steps :
          /\ steps[k].at < Len(rows)
          /\ steps[k].by \in {1, 2}
          /\ steps[k].by = 2 => steps[k].at + 1 < Len(rows)
          /\ k < Len(steps) => steps[k + 1].at = steps[k].at + steps[k].by
          /\ k = Len(steps) => i = steps[k].at + steps[k].by
          /\ \A j \in DOMAIN steps : j # k => steps[j].at # steps[k].at

\* C30: the loop over the rows ends, and in every pass the cursor moves forward
\* by one or two, stays within the rows it reads and comes to no row twice.
C30_ScanTerminates == []CursorSafe /\ <>Returned

\* a scan of a full table ended after passes of both lengths, the last one at a
\* qualifying header in the last row
C30_Witness ==
    /\ Returned
    /\ Len(rows) = MaxRows
    /\ \E k \in DOMAIN steps : steps[k].by = 2
    /\ steps[Len(steps)].by = 1
    /\ steps[Len(steps)].groups # << >>
    /\ i = Len(rows)

====
